---- MODULE Spec2Model ----
(***************************************************************************)
(* A model of cwk1/image_processor.py: the ImageProcessor session (its     *)
(* image and kernel fields), kernel generation, zero padding and the       *)
(* kernel application entry point.                                         *)
(*                                                                         *)
(* Python values are modelled as follows.                                  *)
(*   - An optional value is None or Some(v).                               *)
(*   - A call ends in an outcome: Raise(type, msg) or Return(tag, value),  *)
(*     tag naming the Python type of the returned value.                   *)
(*   - A float produced by the Gaussian generator is kept as the term it   *)
(*     was computed from: Weight(num, den, n) stands for                   *)
(*     exp(num/den) / (sum of exp(-(x^2+y^2)/den) over the n x n grid),    *)
(*     and NaN for the IEEE not-a-number.                                  *)
(*   - numpy's default error state applies: a float division by zero       *)
(*     warns and yields -inf or nan, it does not raise.                    *)
(*   - A float handed in by the caller (sigma) is Float(mant, exp10), the  *)
(*     double nearest to mant * 10^exp10; the range of a double (largest   *)
(*     about 1.8e308, least positive about 4.9e-324) is kept where the     *)
(*     code squares it.                                                    *)
(***************************************************************************)
EXTENDS Integers, Sequences, FiniteSets

VARIABLES
    input_image_path,          \* ImageProcessor.input_image_path
    input_image_data,          \* ImageProcessor.input_image_data
    current_smoothing_kernel,  \* ImageProcessor.current_smoothing_kernel
    call                       \* the most recent method call: op, args, outcome

vars == <<input_image_path, input_image_data, current_smoothing_kernel, call>>

session == <<input_image_path, input_image_data, current_smoothing_kernel>>

-----------------------------------------------------------------------------
(* Bounds of the model *)

MaxSize == 3      \* kernel sizes are drawn from -MaxSize .. MaxSize
MaxSigma == 1     \* sigmas are drawn from -1 .. MaxSigma
MaxCells == 2     \* the codec decodes images of at most MaxCells pixels
MaxPadCells == 4  \* the padding runs start from images of at most MaxPadCells pixels

-----------------------------------------------------------------------------
(* Python values *)

None == [none |-> TRUE]

Some(v) == [none |-> FALSE, val |-> v]

Raise(type, msg) ==
    [raised |-> TRUE, type |-> type, msg |-> msg, tag |-> "none", value |-> <<>>]

Return(tag, v) ==
    [raised |-> FALSE, type |-> "", msg |-> "", tag |-> tag, value |-> v]

\* A float given by its decimal notation: mant * 10^exp10.
Float(mant, exp10) == [mant |-> mant, exp10 |-> exp10]

\* Floats, kept as terms.  kind "nan": not-a-number; "-inf": minus infinity;
\* "zero": 0.0; "quot": num/den; "exp": exp(num/den);
\* "weight": exp(num/den) divided by the sum of the n x n Gaussian grid of den.
\* num is an integer and den a Float.
NaN == [kind |-> "nan", num |-> 0, den |-> Float(0, 0), n |-> 0]

NegInf == [kind |-> "-inf", num |-> 0, den |-> Float(0, 0), n |-> 0]

Zero == [kind |-> "zero", num |-> 0, den |-> Float(0, 0), n |-> 0]

Quot(num, den) == [kind |-> "quot", num |-> num, den |-> den, n |-> 0]

ExpOf(num, den) == [kind |-> "exp", num |-> num, den |-> den, n |-> 0]

Weight(num, den, n) == [kind |-> "weight", num |-> num, den |-> den, n |-> n]

-----------------------------------------------------------------------------
(* Inputs *)

Sizes == (-MaxSize) .. MaxSize

\* Sigmas of ordinary magnitude, and two a double can hold but whose square
\* it cannot: 1e-170 and 1e200.
Sigmas ==
    { Float(m, 0) : m \in (-1) .. MaxSigma } \cup { Float(1, -170), Float(1, 200) }

Pixels == {0, 255}

Paths == {"a.png", "b.png"}

\* The rectangular grids of height >= 1, width >= 1 and at most n pixels.
GridsUpTo(n) ==
    UNION { [1 .. d[1] -> [1 .. d[2] -> Pixels]] :
              d \in { e \in (1 .. n) \X (1 .. n) : e[1] * e[2] <= n } }

\* What the codec can return for a readable file.
Grids == GridsUpTo(MaxCells)

\* What __pad_image can be handed besides a decoded image: [] and [[]].
EmptyImages == { <<>>, << <<>> >> }

\* Matrices a caller may supply for a Custom kernel:
\* square with odd side, square with even side, not square.
CustomMatrices == { << <<1>> >>, << <<0, 1>>, <<1, 0>> >>, << <<1, 2>> >> }

available_smoothing_kernels == <<"Gaussian", "Average", "Custom">>

\* The names the caller may pass: the advertised ones and one that is not.
KernelTypes == {"Gaussian", "Average", "Custom", "Sobel"}

OptSizes == {None} \cup { Some(s) : s \in Sizes }

OptSigmas == {None} \cup { Some(s) : s \in Sigmas }

\* **params of update_kernel: a key that is absent reads as None (dict.get).
ParamsFor(kernel_type) ==
    CASE kernel_type = "Gaussian" ->
           { [size |-> s, sigma |-> g, matrix |-> None] : s \in OptSizes, g \in OptSigmas }
      [] kernel_type = "Custom" ->
           { [size |-> s, sigma |-> None, matrix |-> Some(m)] :
               s \in OptSizes, m \in CustomMatrices }
      [] OTHER ->
           { [size |-> s, sigma |-> None, matrix |-> None] : s \in OptSizes }

-----------------------------------------------------------------------------
(* Error messages of the source *)

MsgGaussianOdd == "Kernel size must be odd to ensure a center pixel."

MsgAverageOdd == "Kernel size must be an odd integer to ensure a center pixel."

MsgUnsupported(kernel_type) == "Unsupported kernel type: " \o kernel_type

MsgEmptyImage == "Input image cannot be empty"

MsgPadSize == "Kernel size must be a positive odd integer"

MsgLoadFailed(file_path) == "Failed to load image: " \o file_path

-----------------------------------------------------------------------------
(* numpy, as far as the generators use it *)

\* np.arange(lo, hi): lo, lo+1, ..., hi-1; empty when hi <= lo.
arange(lo, hi) == [i \in 1 .. (hi - lo) |-> lo + i - 1]

\* np.meshgrid(xs, ys): Len(ys) rows and Len(xs) columns, cell <<x, y>>.
meshgrid(xs, ys) == [i \in 1 .. Len(ys) |-> [j \in 1 .. Len(xs) |-> <<xs[j], ys[i]>>]]

\* x ** 2 on a Python float, for x of at most two digits whose square lies
\* far from the ends of the range: beyond the largest double it raises
\* OverflowError, below the least positive one it is 0.0.
float_square(x) ==
    IF x.mant = 0 THEN Return("float", Float(0, 0))
    ELSE IF 2 * x.exp10 >= 309
    THEN Raise("OverflowError", "(34, 'Numerical result out of range')")
    ELSE IF 2 * x.exp10 + 4 <= -325
    THEN Return("float", Float(0, 0))
    ELSE Return("float", Float(x.mant * x.mant, 2 * x.exp10))

\* k * x for a small integer k and a float x away from the ends of the range.
float_times(k, x) ==
    IF x.mant = 0 THEN Float(0, 0) ELSE Float(k * x.mant, x.exp10)

\* Elementwise num / den in floats, for num <= 0.
true_divide(num, den) ==
    IF den.mant # 0 THEN Quot(num, den)
    ELSE IF num = 0 THEN NaN
    ELSE NegInf

\* np.exp of one cell.
np_exp(q) ==
    CASE q.kind = "nan" -> NaN
      [] q.kind = "-inf" -> Zero
      [] OTHER -> ExpOf(q.num, q.den)

\* Whether np.sum of the matrix is nan: some cell is.
sum_is_nan(m) ==
    \E i \in 1 .. Len(m) : \E j \in 1 .. Len(m[i]) : m[i][j].kind = "nan"

\* gaussian_kernel /= np.sum(gaussian_kernel), for the n x n grid.
\* A sum that is not nan is at least exp(0) = 1: the centre cell.
normalize(m, n) ==
    [i \in 1 .. Len(m) |->
       [j \in 1 .. Len(m[i]) |->
          IF sum_is_nan(m) THEN NaN
          ELSE IF m[i][j].kind = "zero" THEN Zero
          ELSE Weight(m[i][j].num, m[i][j].den, n)]]

\* ndarray.tolist(): the nested list of the array's elements, row by row; an
\* array of shape (0, 0) becomes [].  Arrays and lists are both sequences here.
tolist(m) == m

-----------------------------------------------------------------------------
(* Kernel generation *)

generate_gaussian_kernel(size, sigma) ==
    IF size.none
    THEN Raise("TypeError", "unsupported operand type(s) for %: 'NoneType' and 'int'")
    ELSE IF size.val % 2 = 0
    THEN Raise("ValueError", MsgGaussianOdd)
    ELSE
      LET k == size.val \div 2
          xy == meshgrid(arange(-k, k + 1), arange(-k, k + 1))
      IN  IF sigma.none
          THEN Raise("TypeError",
                     "unsupported operand type(s) for ** or pow(): 'NoneType' and 'int'")
          ELSE
            LET squared == float_square(sigma.val)
                den == float_times(2, squared.value)
                gaussian_kernel ==
                    [i \in 1 .. Len(xy) |->
                       [j \in 1 .. Len(xy[i]) |->
                          np_exp(true_divide(-(xy[i][j][1] * xy[i][j][1]
                                               + xy[i][j][2] * xy[i][j][2]), den))]]
            IN  IF squared.raised THEN squared
                ELSE Return("list", tolist(normalize(gaussian_kernel, size.val)))

\* kernel /= n on a Python list: the list type has no in-place division.
list_itruediv(kernel, n) ==
    Raise("TypeError", "unsupported operand type(s) for /=: 'list' and 'int'")

generate_average_kernel(size) ==
    IF size.none
    THEN Raise("TypeError", "unsupported operand type(s) for %: 'NoneType' and 'int'")
    ELSE IF size.val % 2 = 0
    THEN Raise("ValueError", MsgAverageOdd)
    ELSE
      LET kernel == [i \in 1 .. size.val |-> [j \in 1 .. size.val |-> 1]]
          divided == list_itruediv(kernel, size.val * size.val)
      IN  IF divided.raised THEN divided
          ELSE Return("list", tolist(divided.value))

\* update_kernel clearing the installed kernel before it generates the new one.
update_kernel_clear_first(current, kernel_type, params) ==
    IF kernel_type = "Gaussian"
    THEN LET g == generate_gaussian_kernel(params.size, params.sigma)
         IN  IF g.raised THEN [kernel |-> None, out |-> g]
             ELSE [kernel |-> Some(g.value), out |-> Return("none", <<>>)]
    ELSE IF kernel_type = "Average"
    THEN LET a == generate_average_kernel(params.size)
         IN  IF a.raised THEN [kernel |-> None, out |-> a]
             ELSE [kernel |-> Some(a.value), out |-> Return("none", <<>>)]
    ELSE [kernel |-> None,
          out |-> Raise("ValueError", MsgUnsupported(kernel_type))]

\* update_kernel: the new value of current_smoothing_kernel and the outcome.
\* An assignment whose right-hand side raises does not happen.
update_kernel(current, kernel_type, params) ==
    IF kernel_type = "Gaussian"
    THEN LET g == generate_gaussian_kernel(params.size, params.sigma)
         IN  IF g.raised THEN [kernel |-> current, out |-> g]
             ELSE [kernel |-> Some(g.value), out |-> Return("none", <<>>)]
    ELSE IF kernel_type = "Average"
    THEN LET a == generate_average_kernel(params.size)
         IN  IF a.raised THEN [kernel |-> current, out |-> a]
             ELSE [kernel |-> Some(a.value), out |-> Return("none", <<>>)]
    ELSE [kernel |-> None,
          out |-> Raise("ValueError", MsgUnsupported(kernel_type))]

-----------------------------------------------------------------------------
(* Padding *)

\* __pad_image with the whole kernel size taken as the border width.
pad_image_full_border(kernel_size, image) ==
    IF Len(image) = 0 \/ Len(image[1]) = 0
    THEN Raise("ValueError", MsgEmptyImage)
    ELSE IF kernel_size < 1 \/ kernel_size % 2 = 0
    THEN Raise("ValueError", MsgPadSize)
    ELSE
      LET pad_size == kernel_size
      IN  Return("list",
                 [r \in 1 .. (Len(image) + 2 * pad_size) |->
                    [c \in 1 .. (Len(image[1]) + 2 * pad_size) |->
                       IF /\ r - pad_size \in 1 .. Len(image)
                          /\ c - pad_size \in 1 .. Len(image[1])
                       THEN image[r - pad_size][c - pad_size]
                       ELSE 0]])

\* __pad_image testing the kernel size for evenness only, as the generators do.
pad_image_parity_only(kernel_size, image) ==
    IF Len(image) = 0 \/ Len(image[1]) = 0
    THEN Raise("ValueError", MsgEmptyImage)
    ELSE IF kernel_size % 2 = 0
    THEN Raise("ValueError", MsgPadSize)
    ELSE
      LET pad_size == kernel_size \div 2
      IN  Return("list",
                 [r \in 1 .. (Len(image) + 2 * pad_size) |->
                    [c \in 1 .. (Len(image[1]) + 2 * pad_size) |->
                       IF /\ r - pad_size \in 1 .. Len(image)
                          /\ c - pad_size \in 1 .. Len(image[1])
                       THEN image[r - pad_size][c - pad_size]
                       ELSE 0]])

pad_image(kernel_size, image) ==
    IF Len(image) = 0 \/ Len(image[1]) = 0
    THEN Raise("ValueError", MsgEmptyImage)
    ELSE IF kernel_size < 1 \/ kernel_size % 2 = 0
    THEN Raise("ValueError", MsgPadSize)
    ELSE
      LET img_height == Len(image)
          img_width == Len(image[1])
          pad_size == kernel_size \div 2
          padded_image ==
              [r \in 1 .. (img_height + 2 * pad_size) |->
                 [c \in 1 .. (img_width + 2 * pad_size) |->
                    IF /\ r - pad_size \in 1 .. img_height
                       /\ c - pad_size \in 1 .. img_width
                    THEN image[r - pad_size][c - pad_size]
                    ELSE 0]]
      IN  Return("list", padded_image)

-----------------------------------------------------------------------------
(* Applying a kernel *)

\* __apply_kernel returns False whatever the session holds.
apply_kernel(kernel) == Return("bool", FALSE)

-----------------------------------------------------------------------------
(* Loading an image *)

\* __load_image_grayscale: decoded is what cv2.imread returned,
\* None for a file it cannot read.
load_image_grayscale(file_path, decoded) ==
    IF decoded.none
    THEN Raise("ValueError", MsgLoadFailed(file_path))
    ELSE Return("list", tolist(decoded.val))

\* set_target_image: the new image fields and the outcome; a failed load is
\* caught and reported as False.
set_target_image(data, path, file_path, decoded) ==
    LET loaded == load_image_grayscale(file_path, decoded)
    IN  IF loaded.raised
        THEN [data |-> data, path |-> path, out |-> Return("bool", FALSE)]
        ELSE [data |-> Some(loaded.value), path |-> Some(file_path),
              out |-> Return("bool", TRUE)]

-----------------------------------------------------------------------------
(* The session as a state machine *)

Init ==
    /\ input_image_path = None
    /\ input_image_data = None
    /\ current_smoothing_kernel = None
    /\ call = [op |-> "__init__", args |-> <<>>, out |-> Return("none", <<>>)]

UpdateKernel ==
    \E kernel_type \in KernelTypes :
      \E params \in ParamsFor(kernel_type) :
        LET r == update_kernel(current_smoothing_kernel, kernel_type, params)
        IN  /\ current_smoothing_kernel' = r.kernel
            /\ call' = [op |-> "update_kernel",
                        args |-> [kernel_type |-> kernel_type, params |-> params],
                        out |-> r.out]
            /\ UNCHANGED <<input_image_path, input_image_data>>

SetTargetImage ==
    \E file_path \in Paths :
      \E decoded \in {None} \cup { Some(g) : g \in Grids } :
        LET r == set_target_image(input_image_data, input_image_path, file_path, decoded)
        IN  /\ input_image_data' = r.data
            /\ input_image_path' = r.path
            /\ call' = [op |-> "set_target_image",
                        args |-> [file_path |-> file_path],
                        out |-> r.out]
            /\ UNCHANGED current_smoothing_kernel

\* __pad_image on the loaded image, or on an empty one.
PadImage ==
    \E kernel_size \in Sizes :
      \E image \in EmptyImages \cup
                   (IF input_image_data.none THEN {} ELSE {input_image_data.val}) :
        /\ call' = [op |-> "__pad_image",
                    args |-> [kernel_size |-> kernel_size, image |-> image],
                    out |-> pad_image(kernel_size, image)]
        /\ UNCHANGED session

\* __apply_kernel with the session's kernel.
ApplyKernel ==
    /\ call' = [op |-> "__apply_kernel",
                args |-> [kernel |-> current_smoothing_kernel],
                out |-> apply_kernel(current_smoothing_kernel)]
    /\ UNCHANGED session

Next ==
    \/ UpdateKernel
    \/ SetTargetImage
    \/ PadImage
    \/ ApplyKernel

Spec == Init /\ [][Next]_vars

\* Padding alone, from every session that holds an image and no kernel yet.
InitPad ==
    /\ input_image_path \in { Some(p) : p \in Paths }
    /\ input_image_data \in { Some(g) : g \in GridsUpTo(MaxPadCells) }
    /\ current_smoothing_kernel = None
    /\ call = [op |-> "set_target_image",
               args |-> [file_path |-> input_image_path.val],
               out |-> Return("bool", TRUE)]

NextPad == PadImage

SpecPad == InitPad /\ [][NextPad]_vars

-----------------------------------------------------------------------------
(* Vocabulary of the properties *)

AvailableKernels ==
    { available_smoothing_kernels[i] : i \in 1 .. Len(available_smoothing_kernels) }

\* The error kinds of the specification, as the source can express them:
\* a ValueError told apart by its message.
IsInvalidKernelSize(out) ==
    /\ out.raised
    /\ out.type = "ValueError"
    /\ out.msg \in {MsgGaussianOdd, MsgAverageOdd, MsgPadSize}

IsUnsupportedKernelType(out) ==
    /\ out.raised
    /\ out.type = "ValueError"
    /\ \E kernel_type \in KernelTypes : out.msg = MsgUnsupported(kernel_type)

\* No message of the source speaks of sigma: any other ValueError counts.
IsInvalidParameter(out) ==
    /\ out.raised
    /\ out.type = "ValueError"
    /\ ~IsInvalidKernelSize(out)
    /\ ~IsUnsupportedKernelType(out)

IsNotReady(out, detail) ==
    /\ out.raised
    /\ out.type = "NotReady"
    /\ out.msg = detail

ValidSize(size) == ~size.none /\ size.val >= 1 /\ size.val % 2 = 1

\* [[1.0]]: the 1 x 1 Gaussian kernel is exp(0) / exp(0).
IsIdentityKernel(kernel) ==
    /\ ~kernel.none
    /\ Len(kernel.val) = 1
    /\ Len(kernel.val[1]) = 1
    /\ kernel.val[1][1].kind = "weight"
    /\ kernel.val[1][1].num = 0
    /\ kernel.val[1][1].n = 1

IsSquareOdd(m) ==
    /\ Len(m) % 2 = 1
    /\ \A i \in 1 .. Len(m) : Len(m[i]) = Len(m)

-----------------------------------------------------------------------------
(* C1 *)

\* C1: for a non-empty rectangular grid G and an odd kernel size >= 1,
\* __pad_image returns a grid size - 1 higher and size - 1 wider than G, whose
\* central sub-grid at offset size \div 2 equals G cell for cell and whose
\* every other cell is 0.
C1_PadProperty ==
    ( /\ call.op = "__pad_image"
      /\ Len(call.args.image) >= 1
      /\ Len(call.args.image[1]) >= 1
      /\ call.args.kernel_size >= 1
      /\ call.args.kernel_size % 2 = 1 )
    =>
    LET G == call.args.image
        size == call.args.kernel_size
        off == size \div 2
        P == call.out.value
    IN  /\ ~call.out.raised
        /\ call.out.tag = "list"
        /\ Len(P) = Len(G) + size - 1
        /\ \A r \in 1 .. Len(P) :
             /\ Len(P[r]) = Len(G[1]) + size - 1
             /\ \A c \in 1 .. Len(P[r]) :
                  IF r - off \in 1 .. Len(G) /\ c - off \in 1 .. Len(G[1])
                  THEN P[r][c] = G[r - off][c - off]
                  ELSE P[r][c] = 0

\* A 2 x 2 image holding a non-zero pixel has been padded for a 3 x 3 kernel.
C1_Witness ==
    /\ call.op = "__pad_image"
    /\ call.args.kernel_size = 3
    /\ Len(call.args.image) = 2
    /\ Len(call.args.image[1]) = 2
    /\ call.args.image[1][1] = 255
    /\ ~call.out.raised
    /\ Len(call.out.value) = 4

-----------------------------------------------------------------------------
(* C2 *)

\* C2: update_kernel("Average", size) with a valid size (odd, >= 1) succeeds
\* and installs a size x size matrix whose entries all equal 1/size^2.
C2_AverageInstalled ==
    ( /\ call.op = "update_kernel"
      /\ call.args.kernel_type = "Average"
      /\ ValidSize(call.args.params.size) )
    =>
    LET size == call.args.params.size.val
    IN  /\ ~call.out.raised
        /\ current_smoothing_kernel =
             Some([i \in 1 .. size |-> [j \in 1 .. size |-> Quot(1, Float(size * size, 0))]])

-----------------------------------------------------------------------------
(* C3 *)

\* C3: update_kernel with a kernel type that is not offered fails with an
\* unsupported-kernel-type error and leaves current_smoothing_kernel as it
\* was before the call.
C3_UnknownTypeKeepsKernel ==
    [][ ( /\ call'.op = "update_kernel"
          /\ call'.args.kernel_type \notin AvailableKernels )
        =>
        ( /\ IsUnsupportedKernelType(call'.out)
          /\ current_smoothing_kernel' = current_smoothing_kernel ) ]_vars

-----------------------------------------------------------------------------
(* C4 *)

\* C4: a call of update_kernel for Gaussian or Average that raises leaves
\* current_smoothing_kernel, input_image_data and input_image_path unchanged.
C4_FailedGenerationKeepsSession ==
    [][ ( /\ call'.op = "update_kernel"
          /\ call'.args.kernel_type \in {"Gaussian", "Average"}
          /\ call'.out.raised )
        =>
        ( /\ current_smoothing_kernel' = current_smoothing_kernel
          /\ input_image_data' = input_image_data
          /\ input_image_path' = input_image_path ) ]_vars

\* A Gaussian generation has been rejected for its even size in a session
\* that holds an image and a generated kernel.
C4_Witness ==
    /\ call.op = "update_kernel"
    /\ call.args.kernel_type = "Gaussian"
    /\ call.out.raised
    /\ call.out.msg = MsgGaussianOdd
    /\ ~input_image_data.none
    /\ ~input_image_path.none
    /\ ~current_smoothing_kernel.none
    /\ Len(current_smoothing_kernel.val) = 3

-----------------------------------------------------------------------------
(* C5 *)

\* C5: applying the kernel with no image loaded fails with
\* NotReady(NoImageLoaded); with an image and no kernel it fails with
\* NotReady(NoKernelConfigured).
C5_NotReadyDistinguished ==
    call.op = "__apply_kernel"
    =>
    /\ input_image_data.none => IsNotReady(call.out, "NoImageLoaded")
    /\ (~input_image_data.none /\ call.args.kernel.none)
         => IsNotReady(call.out, "NoKernelConfigured")

-----------------------------------------------------------------------------
(* C6 *)

\* C6: applying the 1 x 1 kernel [[1.0]] to the loaded pixel grid returns a
\* grid equal to it cell for cell.
C6_IdentityKernel ==
    ( /\ call.op = "__apply_kernel"
      /\ ~input_image_data.none
      /\ IsIdentityKernel(call.args.kernel) )
    =>
    ( /\ ~call.out.raised
      /\ call.out.tag = "list"
      /\ call.out.value = input_image_data.val )

-----------------------------------------------------------------------------
(* C7 *)

\* C7: for every kernel type the session offers, update_kernel with an even
\* size fails with an invalid-kernel-size error and installs no kernel.
C7_EvenSizeRejected ==
    [][ ( /\ call'.op = "update_kernel"
          /\ call'.args.kernel_type \in AvailableKernels
          /\ ~call'.args.params.size.none
          /\ call'.args.params.size.val % 2 = 0 )
        =>
        ( /\ IsInvalidKernelSize(call'.out)
          /\ current_smoothing_kernel' = current_smoothing_kernel ) ]_vars

-----------------------------------------------------------------------------
(* C8 *)

\* C8: generating a Gaussian (sigma > 0) or Average kernel with a size below 1
\* fails with an invalid-kernel-size error and installs no kernel.
C8_SizeBelowOneRejected ==
    [][ ( /\ call'.op = "update_kernel"
          /\ \/ call'.args.kernel_type = "Average"
             \/ /\ call'.args.kernel_type = "Gaussian"
                /\ ~call'.args.params.sigma.none
                /\ call'.args.params.sigma.val.mant > 0
          /\ ~call'.args.params.size.none
          /\ call'.args.params.size.val < 1 )
        =>
        ( /\ IsInvalidKernelSize(call'.out)
          /\ current_smoothing_kernel' = current_smoothing_kernel ) ]_vars

-----------------------------------------------------------------------------
(* C9 *)

\* C9: generating a Gaussian kernel with sigma <= 0 and a valid size fails
\* with an invalid-parameter error and installs no kernel.
C9_NonPositiveSigmaRejected ==
    [][ ( /\ call'.op = "update_kernel"
          /\ call'.args.kernel_type = "Gaussian"
          /\ ValidSize(call'.args.params.size)
          /\ ~call'.args.params.sigma.none
          /\ call'.args.params.sigma.val.mant <= 0 )
        =>
        ( /\ IsInvalidParameter(call'.out)
          /\ current_smoothing_kernel' = current_smoothing_kernel ) ]_vars

-----------------------------------------------------------------------------
(* C10 *)

\* C10: update_kernel("Custom", matrix) installs a square matrix of odd side
\* unchanged as the current kernel, and rejects any other matrix.
C10_CustomAccepted ==
    ( /\ call.op = "update_kernel"
      /\ call.args.kernel_type = "Custom"
      /\ ~call.args.params.matrix.none )
    =>
    IF IsSquareOdd(call.args.params.matrix.val)
    THEN /\ ~call.out.raised
         /\ current_smoothing_kernel = call.args.params.matrix
    ELSE call.out.raised

-----------------------------------------------------------------------------
(* C11 *)

IsEmptyImage(out) ==
    /\ out.raised
    /\ out.type = "ValueError"
    /\ out.msg = MsgEmptyImage

\* C11: __pad_image fails with an empty-image error when the grid has no row
\* or its first row has no cell; otherwise it fails with an invalid-kernel-size
\* error when the kernel size is below 1 or even; a failure returns no grid;
\* for every other input it succeeds.
C11_PadRejectsInvalidInput ==
    call.op = "__pad_image"
    =>
    LET image == call.args.image
        kernel_size == call.args.kernel_size
        empty == Len(image) = 0 \/ Len(image[1]) = 0
        bad_size == kernel_size < 1 \/ kernel_size % 2 = 0
    IN  /\ empty => IsEmptyImage(call.out)
        /\ (~empty /\ bad_size)
             => (IsInvalidKernelSize(call.out) /\ call.out.msg = MsgPadSize)
        /\ call.out.raised => (call.out.tag = "none" /\ call.out.value = <<>>)
        /\ (~empty /\ ~bad_size) => (~call.out.raised /\ call.out.tag = "list")

\* A loaded image has been handed to __pad_image with a negative odd kernel
\* size and was rejected for the size.
C11_Witness ==
    /\ call.op = "__pad_image"
    /\ Len(call.args.image) >= 1
    /\ Len(call.args.image[1]) >= 1
    /\ call.args.kernel_size = -1
    /\ call.out.raised
    /\ call.out.msg = MsgPadSize

-----------------------------------------------------------------------------
(* C12 *)

HasImage == ~input_image_data.none

HasKernel == ~current_smoothing_kernel.none

\* The session state Ready: an image and a kernel are present.
Ready == HasImage /\ HasKernel

\* The step is a set_target_image that returned True.
LoadSucceeded ==
    /\ call'.op = "set_target_image"
    /\ call'.out.value = TRUE

\* The step is an update_kernel that raised nothing.
ConfigSucceeded ==
    /\ call'.op = "update_kernel"
    /\ ~call'.out.raised

\* The step is an update_kernel with a valid Gaussian or Average specification.
ValidConfigRequested ==
    /\ call'.op = "update_kernel"
    /\ ValidSize(call'.args.params.size)
    /\ \/ call'.args.kernel_type = "Average"
       \/ /\ call'.args.kernel_type = "Gaussian"
          /\ ~call'.args.params.sigma.none
          /\ call'.args.params.sigma.val.mant > 0

\* C12: set_target_image never changes current_smoothing_kernel, update_kernel
\* with a valid Gaussian or Average specification never changes the image
\* fields, and the session is Ready exactly when a successful image load and
\* a successful kernel configuration have occurred: step by step, it is Ready
\* after a step exactly when an image was present or has just been loaded and
\* a kernel was present or has just been configured.
C12_IndependentDimensions ==
    [][ /\ call'.op = "set_target_image"
             => current_smoothing_kernel' = current_smoothing_kernel
        /\ ValidConfigRequested
             => /\ input_image_data' = input_image_data
                /\ input_image_path' = input_image_path
        /\ Ready' <=> ( /\ HasImage \/ LoadSucceeded
                        /\ HasKernel \/ ConfigSucceeded ) ]_vars

-----------------------------------------------------------------------------
(* C13 *)

\* m is the size x size Gaussian grid of one positive den, every entry divided
\* by the sum of that grid: the entries then sum to (sum of the grid) / (sum
\* of the grid) = 1.
SumsToOne(m, size) ==
    /\ Len(m) = size
    /\ \A i \in 1 .. Len(m) :
         /\ Len(m[i]) = size
         /\ \A j \in 1 .. Len(m[i]) :
              /\ m[i][j].kind = "weight"
              /\ m[i][j].n = size
              /\ m[i][j].den = m[1][1].den
              /\ m[i][j].den.mant > 0
              /\ m[i][j].num = -( (i - 1 - size \div 2) * (i - 1 - size \div 2)
                                  + (j - 1 - size \div 2) * (j - 1 - size \div 2) )

\* C13: for every valid size (odd, >= 1) and every sigma > 0 the Gaussian
\* generator produces a size x size matrix whose entries sum to 1.
C13_GaussianSumsToOne ==
    ( /\ call.op = "update_kernel"
      /\ call.args.kernel_type = "Gaussian"
      /\ ValidSize(call.args.params.size)
      /\ ~call.args.params.sigma.none
      /\ call.args.params.sigma.val.mant > 0 )
    =>
    ( /\ ~call.out.raised
      /\ ~current_smoothing_kernel.none
      /\ SumsToOne(current_smoothing_kernel.val, call.args.params.size.val) )

====
